---- MODULE Spec2Model ----
(***************************************************************************)
(* Model of the Zoom attendance report generator (src/zoom.py, and the     *)
(* identical report core of src/zoom_cron.py).                             *)
(*                                                                         *)
(* Python strings are modelled as sequences of one-character strings, so   *)
(* that str.strip, str.lower and the lexicographic comparison used by      *)
(* list.sort are computed character by character.  A Python dict (a raw    *)
(* participant session, a meeting) is a function whose DOMAIN is the set   *)
(* of keys that are present; dict.get(key, default) is Get.                *)
(***************************************************************************)
EXTENDS Integers, Sequences, FiniteSets, TLC

VARIABLES
    pc,                 \* position of the running operation
    participants,       \* _deduplicate_participants: the caller's list
    participant_groups, \* _deduplicate_participants: dict key -> sessions,
                        \*   as a sequence of entries in insertion order
    deduplicated,       \* _deduplicate_participants: the list being built
    k,                  \* index of the next element of the running loop
    meetings,           \* generate_report: the list of occurrences
    fetched,            \* history: what get_participants returned for
                        \*   each occurrence processed so far
    attendance_data,    \* generate_report: the rows
    all_participants,   \* generate_report: the flat name list
    env,                \* what the running operation was given and what
                        \*   the provider answered: arguments, clock
                        \*   readings, response status codes; for
                        \*   _deduplicate_participants the list and dict
                        \*   objects it works on
    cron                \* run_automated_report: its locals and effects

vars == <<pc, participants, participant_groups, deduplicated, k,
          meetings, fetched, attendance_data, all_participants, env, cron>>

dedupVars == <<participants, participant_groups, deduplicated>>
reportVars == <<meetings, fetched, attendance_data, all_participants>>

(***************************************************************************)
(* Bounds of the model.                                                    *)
(***************************************************************************)
MaxSessions == 3    \* longest raw participant list given to deduplication
MaxMeetings == 2    \* most occurrences in one report
MaxFetched == 2     \* longest participant list fetched inside a report
MaxListed == 2      \* longest meeting list one provider query returns
MaxInput == 3       \* longest text given to parse_time_input

(***************************************************************************)
(* Strings.                                                                *)
(***************************************************************************)
UpperCase ==
    <<"A","B","C","D","E","F","G","H","I","J","K","L","M",
      "N","O","P","Q","R","S","T","U","V","W","X","Y","Z">>

LowerCase ==
    <<"a","b","c","d","e","f","g","h","i","j","k","l","m",
      "n","o","p","q","r","s","t","u","v","w","x","y","z">>

Digits == <<"0","1","2","3","4","5","6","7","8","9">>

\* Characters str.strip() removes (ASCII whitespace).
Whitespace == {" ", "\t", "\n", "\r", "\f"}

\* ord(c), for the ASCII characters the model's strings are written in.
IndexIn(seq, c) == CHOOSE n \in 1..Len(seq) : seq[n] = c

Ord(c) ==
    CASE c = "\t" -> 9
      [] c = "\n" -> 10
      [] c = "\f" -> 12
      [] c = "\r" -> 13
      [] c = " " -> 32
      [] c = "-" -> 45
      [] c = "." -> 46
      [] c = "/" -> 47
      [] c = ":" -> 58
      [] c = "@" -> 64
      [] c = "_" -> 95
      [] \E n \in 1..10 : Digits[n] = c -> 47 + IndexIn(Digits, c)
      [] \E n \in 1..26 : UpperCase[n] = c -> 64 + IndexIn(UpperCase, c)
      [] \E n \in 1..26 : LowerCase[n] = c -> 96 + IndexIn(LowerCase, c)

LowerChar(c) ==
    IF \E n \in 1..26 : UpperCase[n] = c
    THEN LowerCase[IndexIn(UpperCase, c)]
    ELSE c

\* str.lower()
Lower(s) == [n \in 1..Len(s) |-> LowerChar(s[n])]

\* str.strip()
Strip(s) ==
    LET keep == {n \in 1..Len(s) : s[n] \notin Whitespace}
    IN  IF keep = {} THEN <<>>
        ELSE LET lo == CHOOSE n \in keep : \A m \in keep : n <= m
                 hi == CHOOSE n \in keep : \A m \in keep : m <= n
             IN  SubSeq(s, lo, hi)

\* a < b for Python strings: lexicographic by code point, a proper prefix
\* is smaller.
RECURSIVE StrLess(_, _)
StrLess(a, b) ==
    IF b = <<>> THEN FALSE
    ELSE IF a = <<>> THEN TRUE
    ELSE IF a[1] = b[1] THEN StrLess(Tail(a), Tail(b))
    ELSE Ord(a[1]) < Ord(b[1])

\* String literals of the source.
NA_lower == <<"n","/","a">>                              \* "n/a"
NA_upper == <<"N","/","A">>                              \* "N/A"
Unknown == <<"U","n","k","n","o","w","n">>               \* "Unknown"
NoAttendees == <<"N","o"," ","a","t","t","e","n","d","e","e","s">>

\* dict.get(key, default)
Get(d, key, default) == IF key \in DOMAIN d THEN d[key] ELSE default

(***************************************************************************)
(* Dates and times.  A datetime is <<ordinal day, second of the day,       *)
(* microsecond>> (date.toordinal, so that datetimes compare as tuples); a  *)
(* timedelta is [days, seconds], normalised as Python normalises it.       *)
(***************************************************************************)
IsDigit(c) == \E n \in 1..10 : Digits[n] = c

DigitValue(c) == IndexIn(Digits, c) - 1

\* int() of a non-empty run of digits.
RECURSIVE DigitsValue(_)
DigitsValue(s) ==
    IF s = <<>> THEN 0
    ELSE 10 * DigitsValue(SubSeq(s, 1, Len(s) - 1)) + DigitValue(s[Len(s)])

AllDigits(s) == \A n \in 1..Len(s) : IsDigit(s[n])

\* The first position at or after from where s holds a character of cs;
\* 0 when there is none.
FindFrom(s, cs, from) ==
    LET hits == { n \in from..Len(s) : s[n] \in cs }
    IN  IF hits = {} THEN 0 ELSE CHOOSE n \in hits : \A m \in hits : n <= m

IsLeap(year) == year % 4 = 0 /\ (year % 100 # 0 \/ year % 400 = 0)

DaysInMonth(year, month) ==
    IF month = 2 THEN (IF IsLeap(year) THEN 29 ELSE 28)
    ELSE IF month \in {4, 6, 9, 11} THEN 30 ELSE 31

RECURSIVE DaysBeforeMonth(_, _)
DaysBeforeMonth(year, month) ==
    IF month = 1 THEN 0
    ELSE DaysBeforeMonth(year, month - 1) + DaysInMonth(year, month - 1)

\* date(year, month, day).toordinal()
ToOrdinal(year, month, day) ==
    LET y == year - 1
    IN  y * 365 + (y \div 4) - (y \div 100) + (y \div 400)
          + DaysBeforeMonth(year, month) + day

\* The texts the directives of "%Y-%m-%dT%H:%M:%S" accept.
FieldMonth(t) ==
    /\ Len(t) \in {1, 2} /\ AllDigits(t) /\ DigitsValue(t) \in 1..12

FieldDay(t) ==
    \/ Len(t) \in {1, 2} /\ AllDigits(t) /\ DigitsValue(t) \in 1..31
    \/ Len(t) = 2 /\ t[1] = " " /\ IsDigit(t[2]) /\ DigitValue(t[2]) \in 1..9

FieldHour(t) ==
    /\ Len(t) \in {1, 2} /\ AllDigits(t) /\ DigitsValue(t) \in 0..23

FieldMinute(t) ==
    /\ Len(t) \in {1, 2} /\ AllDigits(t) /\ DigitsValue(t) \in 0..59

\* %S accepts 0..61; datetime() then refuses 60 and 61.
FieldSecond(t) ==
    /\ Len(t) \in {1, 2} /\ AllDigits(t) /\ DigitsValue(t) \in 0..61

NoDatetime == [ok |-> FALSE]

\* datetime.strptime(s, "%Y-%m-%dT%H:%M:%S"): [ok |-> TRUE, dt |-> ...], or
\* NoDatetime when it raises ValueError.
Strptime(s) ==
    LET d1 == IF Len(s) >= 5 /\ s[5] = "-" THEN 5 ELSE 0
        d2 == IF d1 = 0 THEN 0 ELSE FindFrom(s, {"-"}, d1 + 1)
        tt == IF d2 = 0 THEN 0 ELSE FindFrom(s, {"T", "t"}, d2 + 1)
        c1 == IF tt = 0 THEN 0 ELSE FindFrom(s, {":"}, tt + 1)
        c2 == IF c1 = 0 THEN 0 ELSE FindFrom(s, {":"}, c1 + 1)
    IN  IF c2 = 0 THEN NoDatetime
        ELSE LET yy == SubSeq(s, 1, 4)
                 mo == SubSeq(s, d1 + 1, d2 - 1)
                 dd == SubSeq(s, d2 + 1, tt - 1)
                 hh == SubSeq(s, tt + 1, c1 - 1)
                 mi == SubSeq(s, c1 + 1, c2 - 1)
                 ss == SubSeq(s, c2 + 1, Len(s))
             IN  IF ~( /\ AllDigits(yy) /\ FieldMonth(mo) /\ FieldDay(dd)
                       /\ FieldHour(hh) /\ FieldMinute(mi) /\ FieldSecond(ss) )
                 THEN NoDatetime
                 ELSE LET year == DigitsValue(yy)
                          month == DigitsValue(mo)
                          day == DigitsValue(Strip(dd))
                          second == DigitsValue(ss)
                      IN  IF \/ year = 0
                             \/ day > DaysInMonth(year, month)
                             \/ second > 59
                          THEN NoDatetime
                          ELSE [ok |-> TRUE,
                                dt |-> << ToOrdinal(year, month, day),
                                          3600 * DigitsValue(hh)
                                            + 60 * DigitsValue(mi) + second,
                                          0 >>]

\* a < b for datetimes.
DatetimeLess(a, b) ==
    \/ a[1] < b[1]
    \/ a[1] = b[1] /\ a[2] < b[2]
    \/ a[1] = b[1] /\ a[2] = b[2] /\ a[3] < b[3]

\* What a call evaluates to when it raises OverflowError.
OverflowError == [raised |-> "OverflowError"]

\* datetime - timedelta: a result before 1 January of year 1 or after
\* 31 December of year 9999 raises OverflowError.
DatetimeMinus(dt, delta) ==
    LET secs == dt[2] - delta.seconds
        ordinal == dt[1] - delta.days + (secs \div 86400)
    IN  IF ordinal < 1 \/ ordinal > 3652059 THEN OverflowError
        ELSE << ordinal, secs % 86400, dt[3] >>

\* timedelta(days=d, hours=h, minutes=m): the value is normalised to days
\* and seconds of the day; more than 999999999 days either way raises
\* OverflowError.
Timedelta(d, h, m) ==
    LET secs == 3600 * (h % 24) + 60 * (m % 1440)
        days == d + (h \div 24) + (m \div 1440) + (secs \div 86400)
    IN  IF days < 0 - 999999999 \/ days > 999999999 THEN OverflowError
        ELSE [days |-> days, seconds |-> secs % 86400]

\* s[:n]
Prefix(s, n) == SubSeq(s, 1, IF Len(s) < n THEN Len(s) ELSE n)

(***************************************************************************)
(* TimeHelper.parse_time_input.                                            *)
(***************************************************************************)
\* The digits of an int() literal once the sign is off: digit groups
\* separated by single underscores.
RECURSIVE IsIntBody(_)
IsIntBody(s) ==
    IF s = <<>> THEN FALSE
    ELSE IF ~IsDigit(s[1]) THEN FALSE
    ELSE IF Len(s) = 1 THEN TRUE
    ELSE IF s[2] = "_" THEN IsIntBody(SubSeq(s, 3, Len(s)))
    ELSE IsIntBody(Tail(s))

\* int(s): surrounding whitespace is dropped, one sign is allowed, the
\* underscores are not part of the value.  ok is FALSE where int raises
\* ValueError.
PyInt(s) ==
    LET t == Strip(s)
        signed == t # <<>> /\ t[1] \in {"+", "-"}
        body == IF signed THEN Tail(t) ELSE t
        magnitude == DigitsValue(SelectSeq(body, LAMBDA c : c # "_"))
    IN  IF ~IsIntBody(body) THEN [ok |-> FALSE]
        ELSE [ok |-> TRUE,
              value |-> IF signed /\ t[1] = "-" THEN 0 - magnitude
                        ELSE magnitude]

\* The window for a number and its unit character.
UnitDelta(number, unit) ==
    CASE unit = "h" -> Timedelta(0, number, 0)
      [] unit = "m" -> Timedelta(0, 0, number)
      [] unit = "d" -> Timedelta(number, 0, 0)

\* The final try block: return timedelta(days=int(time_input)), one day on
\* ValueError.
BareNumber(time_input) ==
    IF PyInt(time_input).ok
    THEN Timedelta(PyInt(time_input).value, 0, 0)
    ELSE Timedelta(1, 0, 0)

\* An OverflowError of timedelta is not a ValueError: neither except
\* clause catches it, and it leaves the function.
ParseTimeInput(time_input) ==
    LET text == Lower(Strip(time_input))
    IN  IF text = <<>> THEN Timedelta(1, 0, 0)
        ELSE IF /\ text[Len(text)] \in {"h", "m", "d"}
                /\ PyInt(SubSeq(text, 1, Len(text) - 1)).ok
             THEN UnitDelta(PyInt(SubSeq(text, 1, Len(text) - 1)).value,
                            text[Len(text)])
             ELSE BareNumber(text)

(***************************************************************************)
(* Raw sessions the provider can report.  Each is a dict of the fields the *)
(* code reads; a field left out is a key the provider did not send.        *)
(***************************************************************************)
SessionPool ==
    { \* "Al" <A@x>, joined 10, left 11
      [name |-> <<"A","l">>, user_email |-> <<"A","@","x">>,
       join_time |-> <<"1","0">>, leave_time |-> <<"1","1">>,
       duration |-> 5, status |-> <<"i","n">>],
      \* "Ally" <a@x >, joined 09, left 12: the same mailbox on a second
      \* device, overlapping the session above
      [name |-> <<"A","l","l","y">>, user_email |-> <<"a","@","x"," ">>,
       join_time |-> <<"0","9">>, leave_time |-> <<"1","2">>,
       duration |-> 7, status |-> <<"o","u","t">>],
      \* "Bob", empty email
      [name |-> <<"B","o","b">>, user_email |-> <<>>,
       join_time |-> <<"1","0">>, leave_time |-> <<"1","1">>,
       duration |-> 3, status |-> <<"i","n">>],
      \* "BOB" <N/A>, joined 9 (after "10" as a string), no duration, no status
      [name |-> <<"B","O","B">>, user_email |-> <<"N","/","A">>,
       join_time |-> <<"9">>, leave_time |-> <<"1","3">>],
      \* " bob" < n/a>, no join time
      [name |-> <<" ","b","o","b">>, user_email |-> <<" ","n","/","a">>,
       leave_time |-> <<"0","8">>, duration |-> 2, status |-> <<"i","n">>],
      \* no name, no email
      [join_time |-> <<"1","0">>, leave_time |-> <<"1","0">>,
       duration |-> 1, status |-> <<"i","n">>],
      \* empty name, no email, no leave time
      [name |-> <<>>, join_time |-> <<"0","8">>, duration |-> 4,
       status |-> <<"o","u","t">>],
      \* "Cy" <c@y>
      [name |-> <<"C","y">>, user_email |-> <<"c","@","y">>,
       join_time |-> <<"1","1">>, leave_time |-> <<"1","2">>,
       duration |-> 6, status |-> <<"i","n">>],
      \* a participant whose display name is literally "Unknown", no email
      [name |-> <<"U","n","k","n","o","w","n">>,
       join_time |-> <<"1","2">>, leave_time |-> <<"1","3">>,
       duration |-> 2] }

\* The lists of 1..n elements of S.
ListsUpTo(S, n) == UNION { [1..m -> S] : m \in 1..n }

(***************************************************************************)
(* AttendanceReporter._deduplicate_participants, grouping loop.            *)
(***************************************************************************)
\* Variant: the email is trimmed but not lower-cased.
IdentityKeyCaseSensitive(participant) ==
    LET email == Strip(Get(participant, "user_email", <<>>))
        name == Strip(Get(participant, "name", <<>>))
    IN  IF email # <<>> /\ Lower(email) # NA_lower THEN email ELSE Lower(name)

\* The identity key of one raw session.
IdentityKey(participant) ==
    LET email == Lower(Strip(Get(participant, "user_email", <<>>)))
        name == Strip(Get(participant, "name", <<>>))
    IN  IF email # <<>> /\ email # NA_lower THEN email ELSE Lower(name)

\* Variant: a new key's group is put in front of the others.
GroupInsertInFront(groups, participant) ==
    LET key == IdentityKey(participant)
    IN  IF \E g \in 1..Len(groups) : groups[g].key = key
        THEN [g \in 1..Len(groups) |->
                 IF groups[g].key = key
                 THEN [groups[g] EXCEPT
                          !.sessions = Append(groups[g].sessions, participant)]
                 ELSE groups[g]]
        ELSE <<[key |-> key, sessions |-> <<participant>>]>> \o groups

\* One iteration of the grouping loop: groups is the dict, as the sequence
\* of its entries in insertion order.
GroupInsert(groups, participant) ==
    LET key == IdentityKey(participant)
    IN  IF \E g \in 1..Len(groups) : groups[g].key = key
        THEN [g \in 1..Len(groups) |->
                 IF groups[g].key = key
                 THEN [groups[g] EXCEPT
                          !.sessions = Append(groups[g].sessions, participant)]
                 ELSE groups[g]]
        ELSE Append(groups, [key |-> key, sessions |-> <<participant>>])

(***************************************************************************)
(* AttendanceReporter._combine_sessions.                                   *)
(***************************************************************************)
\* The sort key of one session.
JoinTimeKey(x) == Get(x, "join_time", <<>>)

\* Stable insertion of x into a list sorted by join time: x goes after
\* every element whose key is not greater than its own.
RECURSIVE InsertByJoinTime(_, _)
InsertByJoinTime(sorted, x) ==
    IF sorted = <<>> THEN <<x>>
    ELSE IF StrLess(JoinTimeKey(x), JoinTimeKey(sorted[1]))
         THEN <<x>> \o sorted
         ELSE <<sorted[1]>> \o InsertByJoinTime(Tail(sorted), x)

\* Variant: the list is left in encounter order.
SortByJoinTimeUnsorted(sessions) == sessions

\* sessions.sort(key=join_time): list.sort is stable.
RECURSIVE SortByJoinTime(_)
SortByJoinTime(sessions) ==
    IF sessions = <<>> THEN <<>>
    ELSE InsertByJoinTime(
             SortByJoinTime(SubSeq(sessions, 1, Len(sessions) - 1)),
             sessions[Len(sessions)])

\* Variant: the last duration replaces the total instead of adding to it.
TotalDurationOverwrite(sessions) ==
    IF sessions = <<>> THEN 0
    ELSE Get(sessions[Len(sessions)], "duration", 0)

RECURSIVE TotalDuration(_)
TotalDuration(sessions) ==
    IF sessions = <<>> THEN 0
    ELSE Get(sessions[1], "duration", 0) + TotalDuration(Tail(sessions))

\* The condition of the best_email generator.
EmailUsable(s) ==
    /\ Strip(Get(s, "user_email", <<>>)) # <<>>
    /\ Lower(Get(s, "user_email", <<>>)) # NA_lower

\* next(... for s in sessions if ..., "N/A")
RECURSIVE BestEmail(_)
BestEmail(sessions) ==
    IF sessions = <<>> THEN NA_upper
    ELSE IF EmailUsable(sessions[1])
         THEN Get(sessions[1], "user_email", <<>>)
         ELSE BestEmail(Tail(sessions))

\* Variant: the email is looked for in the list as passed in, before the
\* sort.
CombineSessionsEmailUnsorted(sessions) ==
    LET sorted == SortByJoinTime(sessions)
    IN  [name |-> Get(sorted[1], "name", Unknown),
         user_email |-> BestEmail(sessions),
         join_time |-> Get(sorted[1], "join_time", <<>>),
         leave_time |-> Get(sorted[Len(sorted)], "leave_time", <<>>),
         duration |-> TotalDuration(sorted),
         status |-> Get(sorted[1], "status", Unknown)]

\* Variant: the name is taken from the list as passed in, before the sort.
CombineSessionsNameUnsorted(sessions) ==
    LET sorted == SortByJoinTime(sessions)
    IN  [name |-> Get(sessions[1], "name", Unknown),
         user_email |-> BestEmail(sorted),
         join_time |-> Get(sorted[1], "join_time", <<>>),
         leave_time |-> Get(sorted[Len(sorted)], "leave_time", <<>>),
         duration |-> TotalDuration(sorted),
         status |-> Get(sorted[1], "status", Unknown)]

\* The dict the function returns; sessions is the list as passed in.
CombineSessions(sessions) ==
    LET sorted == SortByJoinTime(sessions)
    IN  [name |-> Get(sorted[1], "name", Unknown),
         user_email |-> BestEmail(sorted),
         join_time |-> Get(sorted[1], "join_time", <<>>),
         leave_time |-> Get(sorted[Len(sorted)], "leave_time", <<>>),
         duration |-> TotalDuration(sorted),
         status |-> Get(sorted[1], "status", Unknown)]

\* Variant: a group of one session is combined like any other.
MergeGroupAlwaysCombine(sessions) == CombineSessions(sessions)

\* One iteration of the merging loop of _deduplicate_participants: the
\* record appended for one group.
MergeGroup(sessions) ==
    IF Len(sessions) = 1 THEN sessions[1] ELSE CombineSessions(sessions)

\* The whole of _deduplicate_participants, as a function of its argument.
RECURSIVE GroupAll(_)
GroupAll(ps) ==
    IF ps = <<>> THEN <<>>
    ELSE GroupInsert(GroupAll(SubSeq(ps, 1, Len(ps) - 1)), ps[Len(ps)])

DeduplicateParticipants(ps) ==
    LET groups == GroupAll(ps)
    IN  [g \in 1..Len(groups) |-> MergeGroup(groups[g].sessions)]

(***************************************************************************)
(* The objects _deduplicate_participants works on.  A heap is a record:    *)
(* objects, the dicts in order of creation (a reference is a position in   *)
(* it); lists, the list objects, each a sequence of references, list 1     *)
(* being the caller's list; groups, the dict participant_groups, each      *)
(* entry a key and the reference of its list.                              *)
(***************************************************************************)
\* The dicts a sequence of references points to.
Deref(objects, refs) == [n \in 1..Len(refs) |-> objects[refs[n]]]

\* The heap on entry: the caller's list and its session dicts.
HeapOf(ps) ==
    [objects |-> ps,
     lists |-> << [n \in 1..Len(ps) |-> n] >>,
     groups |-> <<>>]

\* participant_groups[key] = []: a new, empty list object.
NewList(lists) == Append(lists, <<>>)

\* The list object of a key's group.
GroupList(heap, key) ==
    heap.groups[CHOOSE g \in 1..Len(heap.groups) :
                    heap.groups[g].key = key].list

\* One iteration of the grouping loop on the heap: the reference taken
\* from the caller's list is appended to the list of its key, which is
\* created first if the key is new.
HeapGroup(heap, ref) ==
    LET key == IdentityKey(heap.objects[ref])
        known == \E g \in 1..Len(heap.groups) : heap.groups[g].key = key
        lists == IF known THEN heap.lists ELSE NewList(heap.lists)
        groups == IF known THEN heap.groups
                  ELSE Append(heap.groups, [key |-> key, list |-> Len(lists)])
        list == groups[CHOOSE g \in 1..Len(groups) : groups[g].key = key].list
    IN  [objects |-> heap.objects,
         lists |-> [lists EXCEPT ![list] = Append(@, ref)],
         groups |-> groups]

\* sessions.sort(key=join_time) on a list of references: the references
\* are reordered as their dicts sort.
SortRefs(objects, refs) ==
    LET tagged == [n \in 1..Len(refs) |->
                      [ref |-> refs[n],
                       join_time |-> JoinTimeKey(objects[refs[n]])]]
        sorted == SortByJoinTime(tagged)
    IN  [n \in 1..Len(sorted) |-> sorted[n].ref]

\* Variant: the combined values are written into the first session of the
\* sorted list instead of a new dict.
StoreCombinedInFirst(objects, sessions, combined) ==
    [objects EXCEPT ![sessions[1]] = combined]

\* return {...}: the combined record is a new dict; sessions is the sorted
\* list of references.
StoreCombined(objects, sessions, combined) == Append(objects, combined)

\* One iteration of the merging loop on the heap: a list of one session
\* is left alone and its dict is appended as it is; a longer list is
\* sorted in place and a combined dict is created.
HeapMerge(heap, key) ==
    LET list == GroupList(heap, key)
        sessions == heap.lists[list]
        sorted == SortRefs(heap.objects, sessions)
    IN  IF Len(sessions) = 1 THEN heap
        ELSE [objects |-> StoreCombined(heap.objects, sorted,
                              CombineSessions(Deref(heap.objects, sessions))),
              lists |-> [heap.lists EXCEPT ![list] = sorted],
              groups |-> heap.groups]

(***************************************************************************)
(* _deduplicate_participants run on one raw list, loop by loop.  env holds *)
(* the heap and the list as the caller passed it (given); participants is  *)
(* the caller's list as the heap has it after each step.                   *)
(***************************************************************************)
DedupInit ==
    /\ pc = "group"
    /\ participants \in ListsUpTo(SessionPool, MaxSessions)
    /\ participant_groups = <<>>
    /\ deduplicated = <<>>
    /\ k = 1
    /\ meetings = <<>>
    /\ fetched = <<>>
    /\ attendance_data = <<>>
    /\ all_participants = <<>>
    /\ env = [heap |-> HeapOf(participants), given |-> participants]
    /\ cron = <<>>

\* for participant in participants: ...
GroupStep ==
    /\ pc = "group"
    /\ k <= Len(participants)
    /\ participant_groups' = GroupInsert(participant_groups, participants[k])
    /\ env' = [env EXCEPT !.heap = HeapGroup(@, @.lists[1][k])]
    /\ participants' = Deref(env'.heap.objects, env'.heap.lists[1])
    /\ IF k = Len(participants)
       THEN pc' = "merge" /\ k' = 1
       ELSE pc' = "group" /\ k' = k + 1
    /\ UNCHANGED deduplicated
    /\ UNCHANGED reportVars
    /\ UNCHANGED cron

\* for sessions in participant_groups.values(): ...
\* _combine_sessions sorts the group's list in place.
MergeStep ==
    /\ pc = "merge"
    /\ k <= Len(participant_groups)
    /\ LET sessions == participant_groups[k].sessions
       IN  /\ deduplicated' = Append(deduplicated, MergeGroup(sessions))
           /\ participant_groups' =
                 IF Len(sessions) = 1 THEN participant_groups
                 ELSE [participant_groups EXCEPT
                          ![k].sessions = SortByJoinTime(sessions)]
    /\ env' = [env EXCEPT !.heap = HeapMerge(@, participant_groups[k].key)]
    /\ participants' = Deref(env'.heap.objects, env'.heap.lists[1])
    /\ IF k = Len(participant_groups)
       THEN pc' = "deduplicated" /\ k' = 1
       ELSE pc' = "merge" /\ k' = k + 1
    /\ UNCHANGED reportVars
    /\ UNCHANGED cron

DedupNext == GroupStep \/ MergeStep

SpecDedup == DedupInit /\ [][DedupNext]_vars

(***************************************************************************)
(* ZoomAPI.get_meetings and ZoomAPI.get_meeting_instances.  A meeting dict *)
(* carries its uuid as a string and its id as an integer, as the provider  *)
(* sends them.                                                             *)
(***************************************************************************)
\* str(n) for an integer.
RECURSIVE NatToStr(_)
NatToStr(n) ==
    IF n < 10 THEN <<Digits[n + 1]>>
    ELSE NatToStr(n \div 10) \o <<Digits[(n % 10) + 1]>>

IntToStr(n) == IF n < 0 THEN <<"-">> \o NatToStr(0 - n) ELSE NatToStr(n)

\* str(meeting.get("id"))
IdText(meeting) ==
    IF "id" \in DOMAIN meeting THEN IntToStr(meeting.id)
    ELSE <<"N","o","n","e">>

\* instance.get("uuid", instance.get("id")), as a dict key: a string and
\* an integer are different keys, None is <<>>.
Identifier(instance) ==
    IF "uuid" \in DOMAIN instance THEN <<"str">> \o instance.uuid
    ELSE IF "id" \in DOMAIN instance THEN <<"int">> \o IntToStr(instance.id)
    ELSE <<>>

\* "if uuid:"
Truthy(identifier) ==
    /\ identifier # <<>>
    /\ identifier # <<"str">>
    /\ identifier # <<"int", "0">>

\* Variant: an occurrence that starts exactly at the cutoff is dropped.
NotBeforeCutoffStrict(meeting_dt, cutoff_time) ==
    DatetimeLess(cutoff_time, meeting_dt)

\* meeting_dt >= cutoff_time
NotBeforeCutoff(meeting_dt, cutoff_time) ==
    ~DatetimeLess(meeting_dt, cutoff_time)

\* The test both functions apply to one occurrence: a start time that is
\* present, parses, and is not before the cutoff.
KeptByTime(meeting, cutoff_time) ==
    LET start_time == Get(meeting, "start_time", <<>>)
        parsed == Strptime(Prefix(start_time, 19))
    IN  /\ start_time # <<>>
        /\ parsed.ok
        /\ NotBeforeCutoff(parsed.dt, cutoff_time)

\* How a call of get_meetings or get_meeting_instances ends: it returns a
\* list, or an exception leaves it.
Return(value) == [returned |-> value]
Raises(outcome) == "raised" \in DOMAIN outcome

\* get_meetings, from the provider's response and the clock reading: the
\* list it returns, or OverflowError when the subtraction that computes
\* the cutoff raises.  A refused request returns before the subtraction.
GetMeetings(response, now, time_delta) ==
    IF response.status_code # 200 THEN Return(<<>>)
    ELSE LET all_meetings == Get(response.json, "meetings", <<>>)
             cutoff_time == DatetimeMinus(now, time_delta)
         IN  IF cutoff_time = OverflowError THEN OverflowError
             ELSE Return(SelectSeq(all_meetings,
                                   LAMBDA m : KeptByTime(m, cutoff_time)))

\* Variant: a key that is already present keeps its first value.
UniqueInsertKeepFirst(unique, instance) ==
    LET uuid == Identifier(instance)
    IN  IF \E n \in 1..Len(unique) : unique[n].key = uuid
        THEN unique
        ELSE Append(unique, [key |-> uuid, value |-> instance])

\* unique_instances[uuid] = instance; the dict is the sequence of its
\* entries in insertion order, an assignment to a present key keeps the
\* entry's place.
UniqueInsert(unique, instance) ==
    LET uuid == Identifier(instance)
    IN  IF \E n \in 1..Len(unique) : unique[n].key = uuid
        THEN [n \in 1..Len(unique) |->
                 IF unique[n].key = uuid
                 THEN [key |-> uuid, value |-> instance]
                 ELSE unique[n]]
        ELSE Append(unique, [key |-> uuid, value |-> instance])

\* The filter-and-deduplicate loop of get_meeting_instances.
RECURSIVE UniqueInstances(_, _)
UniqueInstances(instances, cutoff_time) ==
    IF instances = <<>> THEN <<>>
    ELSE LET before == UniqueInstances(
                           SubSeq(instances, 1, Len(instances) - 1),
                           cutoff_time)
             instance == instances[Len(instances)]
         IN  IF KeptByTime(instance, cutoff_time)
                /\ Truthy(Identifier(instance))
             THEN UniqueInsert(before, instance)
             ELSE before

\* get_meeting_instances: user_meetings is the outcome of its call of
\* get_meetings, now the clock reading taken after that call.  An
\* OverflowError of get_meetings is not caught, and the function's own
\* subtraction can raise it as well.
GetMeetingInstances(meeting_id, response, user_meetings, now, time_delta) ==
    IF Raises(user_meetings) THEN user_meetings
    ELSE LET instances ==
                 (IF response.status_code = 200
                  THEN Get(response.json, "meetings", <<>>)
                  ELSE <<>>)
                 \o SelectSeq(user_meetings.returned,
                              LAMBDA m : IdText(m) = meeting_id)
             cutoff_time == DatetimeMinus(now, time_delta)
         IN  IF cutoff_time = OverflowError THEN OverflowError
             ELSE LET unique == UniqueInstances(instances, cutoff_time)
                  IN  Return([n \in 1..Len(unique) |-> unique[n].value])

\* Timestamps around the clock reading below.
StartInWindow == <<"2","0","2","4","-","0","3","-","0","1","T",
                   "1","1",":","3","0",":","0","0","Z">>
StartAtCutoff == <<"2","0","2","4","-","0","3","-","0","1","T",
                   "1","1",":","0","0",":","0","0","Z">>
StartTooEarly == <<"2","0","2","4","-","0","3","-","0","1","T",
                   "1","0",":","5","9",":","5","9","Z">>
StartDateOnly == <<"2","0","2","4","-","0","3","-","0","1">>

\* datetime.now(): 2024-03-01 12:00:00, on the second or a microsecond
\* after it.
ClockReadings ==
    { << ToOrdinal(2024, 3, 1), 12 * 3600, us >> : us \in {0, 1} }

\* Occurrences the instances query can list.
InstancePool ==
    { [uuid |-> <<"7","8","9">>, topic |-> <<"A">>,
       start_time |-> StartInWindow],
      [uuid |-> <<"u","2">>, start_time |-> StartTooEarly],
      [id |-> 7, topic |-> <<"A">>, start_time |-> StartInWindow],
      [uuid |-> <<"u","3">>, start_time |-> StartAtCutoff] }

\* Meetings the recent-meetings query can list.
UserMeetingPool ==
    { [uuid |-> <<"7","8","9">>, id |-> 7, topic |-> <<"B">>,
       start_time |-> StartInWindow],
      [uuid |-> <<"u","4">>, id |-> 8, topic |-> <<"C">>,
       start_time |-> StartAtCutoff],
      [uuid |-> <<"u","5">>, id |-> 7, topic |-> <<"B">>,
       start_time |-> StartDateOnly],
      [id |-> 7, topic |-> <<"B">>, start_time |-> StartInWindow],
      [uuid |-> <<"u","6">>, id |-> 7, topic |-> <<"B">>] }

\* Provider answers to a meeting query.
MeetingResponses(pool) ==
    { [status_code |-> 200, json |-> [meetings |-> ms]] :
          ms \in {<<>>} \cup ListsUpTo(pool, MaxListed) }
    \cup { [status_code |-> 404, json |-> <<>>] }

\* Lookback windows: one hour; the longest window whose cutoff is still a
\* date at the clock readings above, and the window one day longer; the
\* longest window a timedelta holds; the window that puts the cutoff one
\* day past the last date.
ListingWindows ==
    { Timedelta(0, 1, 0),
      Timedelta(ToOrdinal(2024, 3, 1) - 1, 0, 0),
      Timedelta(ToOrdinal(2024, 3, 1), 0, 0),
      Timedelta(999999999, 0, 0),
      Timedelta(ToOrdinal(2024, 3, 1) - 3652060, 0, 0) }

MeetingsInit ==
    /\ pc = "meetings"
    /\ env \in [meeting_id : {<<"7">>},
                time_delta : ListingWindows,
                now : ClockReadings,
                now_last : ClockReadings,
                list_response : MeetingResponses(UserMeetingPool),
                instances_response : MeetingResponses(InstancePool)]
    /\ env.now_last = env.now
    /\ participants = <<>>
    /\ participant_groups = <<>>
    /\ deduplicated = <<>>
    /\ k = 1
    /\ meetings = <<>>
    /\ fetched = <<>>
    /\ attendance_data = <<>>
    /\ all_participants = <<>>
    /\ cron = <<>>

\* get_meetings(time_delta)
CallGetMeetings ==
    /\ pc = "meetings"
    /\ LET result == GetMeetings(env.list_response, env.now, env.time_delta)
       IN  IF Raises(result)
           THEN pc' = "raised" /\ meetings' = meetings
           ELSE pc' = "listed" /\ meetings' = result.returned
    /\ UNCHANGED <<k, fetched, attendance_data, all_participants, env, cron>>
    /\ UNCHANGED dedupVars

\* get_meeting_instances(meeting_id, time_delta): the clock is read a
\* second time after get_meetings has returned, and not at all when
\* get_meetings has raised.
CallGetMeetingInstances ==
    /\ pc = "meetings"
    /\ LET user_meetings ==
               GetMeetings(env.list_response, env.now, env.time_delta)
       IN  IF Raises(user_meetings)
           THEN pc' = "raised" /\ meetings' = meetings /\ env' = env
           ELSE \E later \in { t \in ClockReadings :
                                  ~DatetimeLess(t, env.now) } :
                   LET result == GetMeetingInstances(
                                     env.meeting_id, env.instances_response,
                                     user_meetings, later, env.time_delta)
                   IN  /\ env' = [env EXCEPT !.now_last = later]
                       /\ IF Raises(result)
                          THEN pc' = "raised" /\ meetings' = meetings
                          ELSE pc' = "instances"
                               /\ meetings' = result.returned
    /\ UNCHANGED <<k, fetched, attendance_data, all_participants, cron>>
    /\ UNCHANGED dedupVars

MeetingsNext == CallGetMeetings \/ CallGetMeetingInstances

SpecMeetings == MeetingsInit /\ [][MeetingsNext]_vars

(***************************************************************************)
(* parse_time_input called on one input.                                   *)
(***************************************************************************)
\* Characters the inputs are written in, and the inputs.
InputChars == {"0", "3", "h", "m", "d", "D", " ", "-", "+", "_", "x"}

\* Numbers at the edge of what a timedelta holds, bare, signed and with a
\* unit character.
LongInputs ==
    { sign \o digits \o unit :
         sign \in { <<>>, <<"-">> },
         digits \in { <<"9","9","9","9","9","9","9","9","9">>,
                      <<"1","0","0","0","0","0","0","0","0","0">> },
         unit \in { <<>>, <<"d">>, <<"h">>, <<"m">> } }

TimeInputs == {<<>>} \cup ListsUpTo(InputChars, MaxInput) \cup LongInputs

ParseInit ==
    /\ pc = "parse"
    /\ env \in [time_input : TimeInputs]
    /\ participants = <<>>
    /\ participant_groups = <<>>
    /\ deduplicated = <<>>
    /\ k = 1
    /\ meetings = <<>>
    /\ fetched = <<>>
    /\ attendance_data = <<>>
    /\ all_participants = <<>>
    /\ cron = <<>>

CallParseTimeInput ==
    /\ pc = "parse"
    /\ pc' = "parsed"
    /\ env' = [time_input |-> env.time_input,
               time_delta |-> ParseTimeInput(env.time_input)]
    /\ UNCHANGED dedupVars
    /\ UNCHANGED reportVars
    /\ UNCHANGED <<k, cron>>

ParseNext == CallParseTimeInput

SpecParse == ParseInit /\ [][ParseNext]_vars

(***************************************************************************)
(* ZoomAPI.get_participants and AttendanceReporter.generate_report.        *)
(***************************************************************************)
\* Sessions the provider reports inside a report run: "Al", a session
\* without a name and a session whose name is empty.
ReportPool ==
    { s \in SessionPool :
         \/ "name" \notin DOMAIN s
         \/ Get(s, "name", <<>>) \in { <<"A","l">>, <<>> } }

\* The occurrence the meeting source lists in n-th place: all occurrences
\* of meeting 7, on the n-th of January 2024 at 10:00.
Meeting(n) ==
    [uuid |-> <<"u", Digits[n + 1]>>,
     id |-> 7,
     topic |-> <<"T", Digits[n + 1]>>,
     start_time |-> <<"2","0","2","4","-","0","1","-","0", Digits[n + 1],
                      "T","1","0",":","0","0",":","0","0","Z">>]

\* What a meeting query can list: the first m occurrences.
MeetingLists == { [n \in 1..m |-> Meeting(n)] : m \in 0..MaxMeetings }

\* Provider answers to a meeting query inside a report run.
ListResponses ==
    { [status_code |-> 200, json |-> [meetings |-> ms]] : ms \in MeetingLists }
    \cup { [status_code |-> 404, json |-> <<>>] }

\* generate_report's meeting_id argument: None, or meeting 7.
MeetingIds == { <<>>, <<"7">> }

\* The clock of a report run, noon of 1 January 2024, and the values of
\* generate_report's time_delta argument: the default of one day, and the
\* longest window a timedelta holds.
ReportNow == << ToOrdinal(2024, 1, 1), 12 * 3600, 0 >>
ReportWindow == Timedelta(1, 0, 0)
ReportWindows == { ReportWindow, Timedelta(999999999, 0, 0) }

\* Provider answers to the participant report request: a success with a
\* participant list, a success whose body has no "participants" key, a
\* failure without a body and a failure whose body lists a participant.
Responses ==
    { [status_code |-> 200, json |-> [participants |-> ps]] :
          ps \in {<<>>} \cup ListsUpTo(ReportPool, MaxFetched) }
    \cup { [status_code |-> 200, json |-> <<>>],
           [status_code |-> 404, json |-> <<>>] }
    \cup { [status_code |-> 500, json |-> [participants |-> <<s>>]] :
              s \in { t \in ReportPool : "user_email" \in DOMAIN t } }

\* get_participants, from the provider's response.
GetParticipants(response) ==
    IF response.status_code = 200
    THEN Get(response.json, "participants", <<>>)
    ELSE <<>>

\* One row of the report.  The two time columns of a row are computed from
\* the occurrence's start_time alone; the row records the position of the
\* occurrence in their place.
Row(occurrence, participant_name) ==
    [meeting |-> occurrence, name |-> participant_name]

\* Variant: a run without occurrences reports a placeholder.
ReportWithoutMeetingsPlaceholder ==
    [rows |-> <<Row(0, NoAttendees)>>, names |-> <<NoAttendees>>]

\* if not meetings: return pd.DataFrame(), []
ReportWithoutMeetings == [rows |-> <<>>, names |-> <<>>]

\* Variant: an occurrence without participants adds no name.
NamesForMeetingNoPlaceholder(ps) ==
    LET records == DeduplicateParticipants(ps)
    IN  [r \in 1..Len(records) |-> Get(records[r], "name", Unknown)]

\* The participant names one loop iteration appends to all_participants,
\* from the fetched list.
NamesForMeeting(ps) ==
    IF ps = <<>> THEN <<NoAttendees>>
    ELSE LET records == DeduplicateParticipants(ps)
         IN  [r \in 1..Len(records) |-> Get(records[r], "name", Unknown)]

\* Variant: an occurrence without participants adds no row.
RowsForMeetingNoPlaceholder(occurrence, ps) ==
    LET records == DeduplicateParticipants(ps)
    IN  [r \in 1..Len(records) |->
            Row(occurrence, Get(records[r], "name", Unknown))]

\* The rows one loop iteration appends to attendance_data.
RowsForMeeting(occurrence, ps) ==
    IF ps = <<>> THEN <<Row(occurrence, NoAttendees)>>
    ELSE LET records == DeduplicateParticipants(ps)
         IN  [r \in 1..Len(records) |->
                 Row(occurrence, Get(records[r], "name", Unknown))]

\* env holds generate_report's time_delta argument and records what the
\* provider answered: whether every request for the meeting list was
\* refused, and the status of each participant request.
Init ==
    /\ pc = "report"
    /\ participants = <<>>
    /\ participant_groups = <<>>
    /\ deduplicated = <<>>
    /\ k = 1
    /\ meetings = <<>>
    /\ fetched = <<>>
    /\ attendance_data = <<>>
    /\ all_participants = <<>>
    /\ env \in [time_delta : ReportWindows,
                list_failed : {FALSE},
                statuses : {<<>>}]
    /\ cron = <<>>

\* The occurrences are asked for, by get_meeting_instances if a meeting id
\* was given and by get_meetings otherwise; an empty answer ends the report
\* with no rows and no names.  An OverflowError of either function is not
\* caught: it leaves generate_report before meetings is assigned.
FetchMeetings ==
    /\ pc = "report"
    /\ \E meeting_id \in MeetingIds,
          list_response \in ListResponses,
          instances_response \in ListResponses :
          LET user_meetings ==
                  GetMeetings(list_response, ReportNow, env.time_delta)
              result ==
                  IF meeting_id # <<>>
                  THEN GetMeetingInstances(meeting_id, instances_response,
                           user_meetings, ReportNow, env.time_delta)
                  ELSE user_meetings
          IN  /\ env' = [env EXCEPT !.list_failed =
                            /\ list_response.status_code # 200
                            /\ \/ meeting_id = <<>>
                               \/ instances_response.status_code # 200]
              /\ IF Raises(result)
                 THEN /\ pc' = "raised"
                      /\ meetings' = meetings
                      /\ attendance_data' = attendance_data
                      /\ all_participants' = all_participants
                 ELSE IF result.returned = <<>>
                 THEN /\ pc' = "returned"
                      /\ meetings' = result.returned
                      /\ attendance_data' = ReportWithoutMeetings.rows
                      /\ all_participants' = ReportWithoutMeetings.names
                 ELSE /\ pc' = "loop"
                      /\ meetings' = result.returned
                      /\ attendance_data' = <<>>
                      /\ all_participants' = <<>>
    /\ UNCHANGED <<k, fetched, cron>>
    /\ UNCHANGED dedupVars

\* One iteration of the loop over the occurrences; after the last one the
\* report is returned.
ProcessMeeting ==
    /\ pc = "loop"
    /\ k <= Len(meetings)
    /\ \E response \in Responses :
          LET ps == GetParticipants(response)
          IN  /\ fetched' = Append(fetched, ps)
              /\ attendance_data' = attendance_data \o RowsForMeeting(k, ps)
              /\ all_participants' = all_participants \o NamesForMeeting(ps)
              /\ env' = [env EXCEPT
                            !.statuses = Append(@, response.status_code)]
    /\ IF k = Len(meetings)
       THEN pc' = "returned" /\ k' = k
       ELSE pc' = "loop" /\ k' = k + 1
    /\ UNCHANGED meetings
    /\ UNCHANGED dedupVars
    /\ UNCHANGED cron

Next == FetchMeetings \/ ProcessMeeting

Spec == Init /\ [][Next]_vars

(***************************************************************************)
(* run_automated_report (zoom_cron.py).  cron holds the configuration, the *)
(* local variable filename, the report files on disk, the exception that   *)
(* is on its way out of the try statement, how the run ended, and the      *)
(* outside actions taken so far (log).                                     *)
(***************************************************************************)
\* A value of the environment: unset or empty, or set.
Settings == { <<>>, <<"s","e","t">> }

\* Values MEETING_ID can have: the placeholder and a meeting id.
MeetingIdPlaceholder ==
    <<"Y","O","U","R","_","M","E","E","T","I","N","G","_","I","D","_",
      "H","E","R","E">>
MeetingIdConfigured == <<"4","6","9","7","3","7","0","3","8">>

\* The local variable filename before its assignment, and the path
\* save_report returns.
Unbound == "unbound"
ReportFile == "/tmp/zoom_attendance_report.xlsx"

\* The ways the run can end, and no exception pending.
SystemExit1 == "SystemExit(1)"
UnboundLocalError == "UnboundLocalError"
Returned == "returned"
NoException == "none"

\* Variant: the recipients are not looked at.
ConfigValidNoRecipients(c) ==
    /\ c.MEETING_ID # MeetingIdPlaceholder
    /\ c.config.zoom_account_id # <<>>
    /\ c.config.zoom_client_id # <<>>
    /\ c.config.zoom_client_secret # <<>>
    /\ ~(c.SEND_EMAIL /\ ( \/ c.config.sender_email = <<>>
                           \/ c.config.sender_password = <<>> ))

\* The four checks made before the try statement: TRUE if none of them
\* calls sys.exit(1).
ConfigValid(c) ==
    /\ c.MEETING_ID # MeetingIdPlaceholder
    /\ c.config.zoom_account_id # <<>>
    /\ c.config.zoom_client_id # <<>>
    /\ c.config.zoom_client_secret # <<>>
    /\ ~(c.SEND_EMAIL /\ ( \/ c.config.sender_email = <<>>
                           \/ c.config.sender_password = <<>> ))
    /\ ~(c.SEND_EMAIL /\ c.config.recipients = <<>>)

\* How the finally clause ends the run: reading an unassigned filename
\* raises UnboundLocalError, which replaces the exception on its way out;
\* otherwise that exception goes on, or the function returns.
CleanupOutcome(filename, pending) ==
    IF filename = Unbound THEN UnboundLocalError
    ELSE IF pending = NoException THEN Returned
    ELSE pending

CronInit ==
    /\ pc = "validate"
    /\ cron \in [MEETING_ID : {MeetingIdPlaceholder, MeetingIdConfigured},
                 SEND_EMAIL : BOOLEAN,
                 config : [zoom_account_id : Settings,
                           zoom_client_id : Settings,
                           zoom_client_secret : Settings,
                           sender_email : Settings,
                           sender_password : Settings,
                           recipients : {<<>>, <<"r@x">>}],
                 filename : {Unbound},
                 files : {{}},
                 pending : {NoException},
                 handled : {FALSE},
                 cleanup : {FALSE},
                 outcome : {NoException},
                 log : {<<>>}]
    /\ participants = <<>>
    /\ participant_groups = <<>>
    /\ deduplicated = <<>>
    /\ k = 1
    /\ meetings = <<>>
    /\ fetched = <<>>
    /\ attendance_data = <<>>
    /\ all_participants = <<>>
    /\ env = <<>>

\* The configuration checks: any failed check ends the run by sys.exit(1).
Validate ==
    /\ pc = "validate"
    /\ IF ConfigValid(cron)
       THEN pc' = "generate" /\ cron' = cron
       ELSE pc' = "ended" /\ cron' = [cron EXCEPT !.outcome = SystemExit1]
    /\ UNCHANGED <<k, env>>
    /\ UNCHANGED dedupVars
    /\ UNCHANGED reportVars

\* try: ... generate_report(MEETING_ID, time_delta).  The first provider
\* request authenticates; a refused authentication raises, and so can a
\* request for data or, after it, the subtraction of the window from the
\* clock.
GenerateReport ==
    /\ pc = "generate"
    /\ \E result \in {"ok", "authentication refused", "request raised"} :
          /\ cron' = [cron EXCEPT
                !.log = @ \o ( IF result = "authentication refused"
                               THEN <<"authenticate">>
                               ELSE <<"authenticate", "fetch">> )]
          /\ pc' = IF result = "ok" THEN "save" ELSE "except"
    /\ UNCHANGED <<k, env>>
    /\ UNCHANGED dedupVars
    /\ UNCHANGED reportVars

\* filename = reporter.save_report(df): the assignment happens only if
\* save_report returns.  save_report can raise before pd.ExcelWriter has
\* opened the file or after it; in the second case the file is on disk
\* while filename is still unassigned.
SaveReport ==
    /\ pc = "save"
    /\ \E result \in {"returned", "raised before writing",
                      "raised after writing"} :
          IF result = "returned"
          THEN /\ cron' = [cron EXCEPT !.filename = ReportFile,
                                       !.files = @ \cup {ReportFile},
                                       !.log = Append(@, "save")]
               /\ pc' = "send"
          ELSE /\ cron' = IF result = "raised after writing"
                          THEN [cron EXCEPT !.files = @ \cup {ReportFile},
                                            !.log = Append(@, "save")]
                          ELSE cron
               /\ pc' = "except"
    /\ UNCHANGED <<k, env>>
    /\ UNCHANGED dedupVars
    /\ UNCHANGED reportVars

\* if SEND_EMAIL: ... send_report returns False on any failure, and the
\* run then calls sys.exit(1) inside the try statement; SystemExit is not
\* an Exception, so the except clause lets it pass.
SendEmail ==
    /\ pc = "send"
    /\ IF cron.SEND_EMAIL
       THEN \E success \in BOOLEAN :
               cron' = [cron EXCEPT
                   !.log = Append(@, "send"),
                   !.pending = IF success THEN NoException ELSE SystemExit1]
       ELSE cron' = cron
    /\ pc' = "finally"
    /\ UNCHANGED <<k, env>>
    /\ UNCHANGED dedupVars
    /\ UNCHANGED reportVars

\* except Exception as e: ... sys.exit(1)
HandleError ==
    /\ pc = "except"
    /\ cron' = [cron EXCEPT !.handled = TRUE, !.pending = SystemExit1]
    /\ pc' = "finally"
    /\ UNCHANGED <<k, env>>
    /\ UNCHANGED dedupVars
    /\ UNCHANGED reportVars

\* finally: os.remove(filename)
Cleanup ==
    /\ pc = "finally"
    /\ cron' = [cron EXCEPT
          !.cleanup = TRUE,
          !.files = IF cron.filename = Unbound THEN @
                    ELSE @ \ {cron.filename},
          !.log = IF cron.filename = Unbound THEN @
                  ELSE Append(@, "remove"),
          !.pending = NoException,
          !.outcome = CleanupOutcome(cron.filename, cron.pending)]
    /\ pc' = "ended"
    /\ UNCHANGED <<k, env>>
    /\ UNCHANGED dedupVars
    /\ UNCHANGED reportVars

CronNext ==
    \/ Validate
    \/ GenerateReport
    \/ SaveReport
    \/ SendEmail
    \/ HandleError
    \/ Cleanup

SpecCron == CronInit /\ [][CronNext]_vars

(***************************************************************************)
(* Vocabulary of the statements about deduplication.  These are written    *)
(* from the statements, over the caller's list, not from the code.         *)
(***************************************************************************)
Range(seq) == { seq[n] : n \in 1..Len(seq) }

EmailOf(s) == IF "user_email" \in DOMAIN s THEN s.user_email ELSE <<>>
NameOf(s) == IF "name" \in DOMAIN s THEN s.name ELSE <<>>
JoinOf(s) == IF "join_time" \in DOMAIN s THEN s.join_time ELSE <<>>
LeaveOf(s) == IF "leave_time" \in DOMAIN s THEN s.leave_time ELSE <<>>
DurationOf(s) == IF "duration" \in DOMAIN s THEN s.duration ELSE 0

\* lowercase(trim(email)) when that is non-empty and not "n/a", and
\* lowercase(trim(name)) otherwise.
HasValidEmail(s) ==
    Lower(Strip(EmailOf(s))) \notin {<<>>, <<"n","/","a">>}

StatedKey(s) ==
    IF HasValidEmail(s) THEN Lower(Strip(EmailOf(s)))
    ELSE Lower(Strip(NameOf(s)))

\* Positions of the caller's list whose session has the given key.
Members(key) ==
    { j \in 1..Len(participants) : StatedKey(participants[j]) = key }

\* The keys of the caller's list.
InputKeys == { StatedKey(participants[j]) : j \in 1..Len(participants) }

\* Position j of the caller's list comes before position m in join-time
\* order: smaller join time, and encounter order among equal join times.
JoinsBefore(j, m) ==
    \/ StrLess(JoinOf(participants[j]), JoinOf(participants[m]))
    \/ JoinOf(participants[j]) = JoinOf(participants[m]) /\ j < m

\* The member of a non-empty set of positions that is first in join-time
\* order.
EarliestJoined(S) == CHOOSE j \in S : \A m \in S \ {j} : JoinsBefore(j, m)

\* The member that was encountered first.
FirstEncountered(S) == CHOOSE j \in S : \A m \in S : j <= m

RECURSIVE SumOfDurations(_)
SumOfDurations(S) ==
    IF S = {} THEN 0
    ELSE LET j == CHOOSE m \in S : TRUE
         IN  DurationOf(participants[j]) + SumOfDurations(S \ {j})

\* An email the merge may pick: not blank, and not the literal "n/a" in
\* any letter case.
Pickable(s) == Strip(EmailOf(s)) # <<>> /\ Lower(EmailOf(s)) # <<"n","/","a">>

Deduplicated == pc = "deduplicated"

\* Groups of the finished run that merged more than one session.
MergedGroups ==
    { g \in 1..Len(deduplicated) :
         Cardinality(Members(participant_groups[g].key)) > 1 }

(***************************************************************************)
(* C1.  _deduplicate_participants returns exactly one record per distinct  *)
(* identity key of its input: as many records as distinct keys, every      *)
(* input session in the group of exactly one record, and no two output     *)
(* records with the same identity key.                                     *)
(***************************************************************************)
C1_OneRecordPerKey ==
    Deduplicated =>
        /\ Len(deduplicated) = Cardinality(InputKeys)
        /\ Len(participant_groups) = Len(deduplicated)
        /\ \A j \in 1..Len(participants) :
              Cardinality({ g \in 1..Len(participant_groups) :
                  participants[j] \in Range(participant_groups[g].sessions) }) = 1
        /\ \A g \in 1..Len(participant_groups) :
              Len(participant_groups[g].sessions)
                  = Cardinality(Members(participant_groups[g].key))
        /\ \A g, h \in 1..Len(deduplicated) :
              g # h => StatedKey(deduplicated[g]) # StatedKey(deduplicated[h])

(***************************************************************************)
(* C2.  Two sessions are in the same group exactly when their identity     *)
(* keys are equal; emails that differ only in case or surrounding          *)
(* whitespace share a group, and so do sessions without a valid email      *)
(* whose names differ only in case.                                        *)
(***************************************************************************)
InSameGroup(a, b) ==
    \E g \in 1..Len(participant_groups) :
        /\ a \in Range(participant_groups[g].sessions)
        /\ b \in Range(participant_groups[g].sessions)

C2_SameGroupIffSameKey ==
    pc \in {"merge", "deduplicated"} =>
        \A a, b \in Range(participants) :
            /\ InSameGroup(a, b) <=> StatedKey(a) = StatedKey(b)
            /\ ( /\ HasValidEmail(a)
                 /\ Lower(Strip(EmailOf(a))) = Lower(Strip(EmailOf(b))) )
                  => InSameGroup(a, b)
            /\ ( /\ ~HasValidEmail(a)
                 /\ ~HasValidEmail(b)
                 /\ Lower(NameOf(a)) = Lower(NameOf(b)) )
                  => InSameGroup(a, b)

\* Grouping has put "A@x" and "a@x " in one group and a session with
\* another key in a group of its own.
C2_Witness ==
    /\ pc = "merge"
    /\ \E a, b, c \in Range(participants) :
          /\ EmailOf(a) = <<"A","@","x">>
          /\ EmailOf(b) = <<"a","@","x"," ">>
          /\ InSameGroup(a, b)
          /\ ~InSameGroup(a, c)

(***************************************************************************)
(* C3.  The merged record's total duration is the sum of the durations of  *)
(* all sessions of its group, a missing duration counting as 0, in every   *)
(* encounter order.                                                        *)
(***************************************************************************)
C3_DurationAdditive ==
    Deduplicated =>
        \A g \in 1..Len(deduplicated) :
            DurationOf(deduplicated[g])
                = SumOfDurations(Members(participant_groups[g].key))

\* A merged group of three sessions, one of them without a duration.
C3_Witness ==
    /\ Deduplicated
    /\ \E g \in MergedGroups :
          /\ Cardinality(Members(participant_groups[g].key)) = 3
          /\ \E j \in Members(participant_groups[g].key) :
                "duration" \notin DOMAIN participants[j]
          /\ deduplicated[g].duration > 0

(***************************************************************************)
(* C4.  The merged record's leaveTime is the latest leave time of the      *)
(* sessions of its group, also when the sessions overlap.                  *)
(***************************************************************************)
C4_LeaveTimeIsLatest ==
    Deduplicated =>
        \A g \in MergedGroups :
            LET S == Members(participant_groups[g].key)
            IN  /\ \E j \in S : LeaveOf(participants[j]) = deduplicated[g].leave_time
                /\ \A j \in S :
                      ~StrLess(deduplicated[g].leave_time, LeaveOf(participants[j]))

(***************************************************************************)
(* C5.  The merged record's joinTime is the least join time of the         *)
(* sessions of its group, a missing join time counting as the empty string.*)
(***************************************************************************)
C5_JoinTimeIsEarliest ==
    Deduplicated =>
        \A g \in MergedGroups :
            LET S == Members(participant_groups[g].key)
            IN  /\ \E j \in S : JoinOf(participants[j]) = deduplicated[g].join_time
                /\ \A j \in S :
                      ~StrLess(JoinOf(participants[j]), deduplicated[g].join_time)

\* A merged group whose earliest-joined session was not encountered first.
C5_Witness ==
    /\ Deduplicated
    /\ \E g \in MergedGroups :
          LET S == Members(participant_groups[g].key)
          IN  /\ EarliestJoined(S) # FirstEncountered(S)
              /\ deduplicated[g].join_time
                    # JoinOf(participants[FirstEncountered(S)])

(***************************************************************************)
(* C6.  As stated: the merged record's email is the first pickable email   *)
(* in encounter order, "N/A" when the group has none.                      *)
(***************************************************************************)
C6_EmailInEncounterOrder ==
    Deduplicated =>
        \A g \in MergedGroups :
            LET S == Members(participant_groups[g].key)
                P == { j \in S : Pickable(participants[j]) }
            IN  deduplicated[g].user_email
                    = IF P = {} THEN <<"N","/","A">>
                      ELSE EmailOf(participants[FirstEncountered(P)])

(***************************************************************************)
(* C6, amended.  The merged record's email is the first pickable email in  *)
(* join-time order (encounter order among equal join times), "N/A" when    *)
(* the group has none.                                                     *)
(***************************************************************************)
C6_EmailInJoinOrder ==
    Deduplicated =>
        \A g \in MergedGroups :
            LET S == Members(participant_groups[g].key)
                P == { j \in S : Pickable(participants[j]) }
            IN  deduplicated[g].user_email
                    = IF P = {} THEN <<"N","/","A">>
                      ELSE EmailOf(participants[EarliestJoined(P)])

\* A merged group whose email is not the one encountered first.
C6_Witness ==
    /\ Deduplicated
    /\ \E g \in MergedGroups :
          LET S == Members(participant_groups[g].key)
              P == { j \in S : Pickable(participants[j]) }
          IN  /\ P # {}
              /\ deduplicated[g].user_email
                    # EmailOf(participants[FirstEncountered(P)])

(***************************************************************************)
(* C7.  As stated: when sessions with different names share a valid email, *)
(* the merged record carries the name of the session encountered first.    *)
(***************************************************************************)
SharedEmailGroups ==
    { g \in MergedGroups :
         LET S == Members(participant_groups[g].key)
         IN  /\ \A j \in S : HasValidEmail(participants[j])
             /\ \E j, m \in S : NameOf(participants[j]) # NameOf(participants[m]) }

C7_NameOfFirstEncountered ==
    Deduplicated =>
        \A g \in SharedEmailGroups :
            LET S == Members(participant_groups[g].key)
            IN  deduplicated[g].name = NameOf(participants[FirstEncountered(S)])

(***************************************************************************)
(* C7, amended.  The merged record carries the name of the session that    *)
(* joined first (encounter order among equal join times).                  *)
(***************************************************************************)
C7_NameOfEarliestJoined ==
    Deduplicated =>
        \A g \in SharedEmailGroups :
            LET S == Members(participant_groups[g].key)
            IN  deduplicated[g].name = NameOf(participants[EarliestJoined(S)])

\* "Al" was encountered before "Ally", who joined first: the record is
\* named "Ally".
C7_Witness ==
    /\ Deduplicated
    /\ \E g \in SharedEmailGroups :
          LET S == Members(participant_groups[g].key)
          IN  /\ EarliestJoined(S) # FirstEncountered(S)
              /\ deduplicated[g].name # NameOf(participants[FirstEncountered(S)])

(***************************************************************************)
(* C8.  A group of exactly one session is promoted unchanged: the record   *)
(* is that session, with no field rewritten or defaulted.                  *)
(***************************************************************************)
C8_SinglePromotedUnchanged ==
    Deduplicated =>
        \A g \in 1..Len(deduplicated) :
            LET S == Members(participant_groups[g].key)
            IN  Cardinality(S) = 1 =>
                    \A j \in S : deduplicated[g] = participants[j]

\* A promoted session that lacks a duration and a status: the record lacks
\* them too.
C8_Witness ==
    /\ Deduplicated
    /\ \E g \in 1..Len(deduplicated) :
          /\ Cardinality(Members(participant_groups[g].key)) = 1
          /\ "duration" \notin DOMAIN deduplicated[g]
          /\ "status" \notin DOMAIN deduplicated[g]

(***************************************************************************)
(* Vocabulary of the statements about the report.                          *)
(***************************************************************************)
\* The distinct identity keys of a session list.
KeysOf(ps) == { StatedKey(ps[n]) : n \in 1..Len(ps) }

\* The positions of a session list at which a key is seen for the first
\* time.
FirstSeen(ps) ==
    { n \in 1..Len(ps) :
         \A m \in 1..(n - 1) : StatedKey(ps[m]) # StatedKey(ps[n]) }

\* The r-th smallest member of a set of positions.
NthOf(S, r) == CHOOSE n \in S : Cardinality({ m \in S : m <= n }) = r

\* Positions of the rows that belong to the j-th occurrence.
RowsOf(j) == { n \in 1..Len(attendance_data) : attendance_data[n].meeting = j }

\* Display names of the sessions of ps that have the given key, as written
\* to a row.
DisplayNames(ps, key) ==
    { IF "name" \in DOMAIN ps[n] THEN ps[n].name ELSE Unknown :
         n \in { m \in 1..Len(ps) : StatedKey(ps[m]) = key } }

(***************************************************************************)
(* C9.  Every occurrence whose fetched session list is empty contributes   *)
(* exactly one row, named "No attendees", and exactly one entry            *)
(* "No attendees" to the name list; every occurrence with sessions         *)
(* contributes exactly one row and one name per distinct identity key,     *)
(* each the name of one of its sessions, and no placeholder.               *)
(***************************************************************************)
C9_PlaceholderOrOnePerKey ==
    /\ Len(all_participants) = Len(attendance_data)
    /\ \A j \in 1..Len(fetched) :
          IF fetched[j] = <<>>
          THEN /\ Cardinality(RowsOf(j)) = 1
               /\ \A n \in RowsOf(j) :
                     /\ attendance_data[n].name = NoAttendees
                     /\ all_participants[n] = NoAttendees
          ELSE /\ Cardinality(RowsOf(j)) = Cardinality(KeysOf(fetched[j]))
               /\ \A n \in RowsOf(j) :
                     \E key \in KeysOf(fetched[j]) :
                         /\ attendance_data[n].name \in DisplayNames(fetched[j], key)
                         /\ all_participants[n] \in DisplayNames(fetched[j], key)
    /\ \A n \in 1..Len(attendance_data) :
          attendance_data[n].meeting \in 1..Len(fetched)

\* A returned report of an occurrence without sessions and an occurrence
\* whose two sessions were merged into one row.
C9_Witness ==
    /\ pc = "returned"
    /\ Len(fetched) = 2
    /\ fetched[1] = <<>>
    /\ Len(fetched[2]) = 2
    /\ Len(attendance_data) = 2
    /\ all_participants[1] = NoAttendees
    /\ all_participants[2] # NoAttendees

(***************************************************************************)
(* C10.  The rows are ordered by occurrence in input order, and within one *)
(* occurrence by the position at which each identity key was first seen in *)
(* that occurrence's session list; the name list has the same order.       *)
(***************************************************************************)
C10_RowOrder ==
    /\ \A a, b \in 1..Len(attendance_data) :
          a < b => attendance_data[a].meeting <= attendance_data[b].meeting
    /\ \A j \in 1..Len(fetched) :
          fetched[j] # <<>> =>
              /\ Cardinality(RowsOf(j)) = Cardinality(FirstSeen(fetched[j]))
              /\ \A r \in 1..Cardinality(RowsOf(j)) :
                    LET row == attendance_data[NthOf(RowsOf(j), r)]
                        first == fetched[j][NthOf(FirstSeen(fetched[j]), r)]
                    IN  row.name \in DisplayNames(fetched[j], StatedKey(first))
    /\ Len(all_participants) = Len(attendance_data)
    /\ \A n \in 1..Len(attendance_data) :
          all_participants[n] = attendance_data[n].name

\* A returned report of two occurrences, each with two identities, the
\* second of which lists them in the opposite order.
C10_Witness ==
    /\ pc = "returned"
    /\ Len(fetched) = 2
    /\ Len(fetched[1]) = 2
    /\ Len(fetched[2]) = 2
    /\ fetched[2] = <<fetched[1][2], fetched[1][1]>>
    /\ Len(attendance_data) = 4
    /\ attendance_data[1].name = attendance_data[4].name
    /\ attendance_data[1].name # attendance_data[2].name

(***************************************************************************)
(* Vocabulary of the statements about the meeting queries.                 *)
(***************************************************************************)
\* The occurrence identifier: the uuid, falling back to the id.
OccurrenceId(m) ==
    IF "uuid" \in DOMAIN m THEN <<"str">> \o m.uuid
    ELSE IF "id" \in DOMAIN m THEN <<"int">> \o IntToStr(m.id)
    ELSE <<>>

\* The start of m is present, parses, and is at or after the cutoff.
StartsAtOrAfter(m, cutoff) ==
    /\ "start_time" \in DOMAIN m
    /\ m.start_time # <<>>
    /\ Strptime(Prefix(m.start_time, 19)).ok
    /\ LET dt == Strptime(Prefix(m.start_time, 19)).dt
       IN  dt = cutoff \/ DatetimeLess(cutoff, dt)

\* now minus the lookback window, for the first and for the last reading
\* of the clock.
CutoffFirst == DatetimeMinus(env.now, env.time_delta)
CutoffLast == DatetimeMinus(env.now_last, env.time_delta)

\* What the two provider queries supplied: the instances query, and the
\* recent-meetings listing filtered by the meeting id.
Listed(response) ==
    IF response.status_code = 200 /\ "meetings" \in DOMAIN response.json
    THEN response.json.meetings ELSE <<>>

FirstSource == Listed(env.instances_response)

SecondSource ==
    SelectSeq(Listed(env.list_response), LAMBDA m : IdText(m) = env.meeting_id)

\* Positions of the in-window entries of a source that carry an identifier.
InWindowWith(source, id) ==
    { n \in 1..Len(source) :
         OccurrenceId(source[n]) = id /\ StartsAtOrAfter(source[n], CutoffLast) }

(***************************************************************************)
(* C11.  get_meeting_instances returns at most one occurrence per          *)
(* occurrence identifier; when both source queries supply an in-window     *)
(* occurrence with the same identifier, the retained copy is the one of    *)
(* the source merged in second, the filtered recent-meetings listing.      *)
(***************************************************************************)
C11_OnePerIdentifierSecondWins ==
    pc = "instances" =>
        /\ \A a, b \in 1..Len(meetings) :
              a # b => OccurrenceId(meetings[a]) # OccurrenceId(meetings[b])
        /\ \A i \in 1..Len(FirstSource) :
              LET id == OccurrenceId(FirstSource[i])
                  S == InWindowWith(SecondSource, id)
              IN  ( /\ StartsAtOrAfter(FirstSource[i], CutoffLast)
                    /\ S # {} )
                  => \E a \in 1..Len(meetings) :
                        /\ OccurrenceId(meetings[a]) = id
                        /\ meetings[a] =
                              SecondSource[CHOOSE n \in S : \A m \in S : m <= n]

\* Both sources listed occurrence "789" in the window, with topics "A" and
\* "B": the one returned has topic "B".
C11_Witness ==
    /\ pc = "instances"
    /\ \E i \in 1..Len(FirstSource) :
          /\ OccurrenceId(FirstSource[i]) = <<"str", "7", "8", "9">>
          /\ FirstSource[i].topic = <<"A">>
    /\ \E a \in 1..Len(meetings) :
          /\ OccurrenceId(meetings[a]) = <<"str", "7", "8", "9">>
          /\ meetings[a].topic = <<"B">>

(***************************************************************************)
(* C15.  Every occurrence get_meetings and get_meeting_instances return    *)
(* has a start time at or after now minus the lookback window, the         *)
(* boundary included; an occurrence whose start time is missing,           *)
(* unparseable or before the cutoff is never returned.                     *)
(***************************************************************************)
C15_OnlyInWindow ==
    /\ pc = "listed" =>
          meetings = SelectSeq(Listed(env.list_response),
                               LAMBDA m : StartsAtOrAfter(m, CutoffFirst))
    /\ pc = "instances" =>
          /\ \A a \in 1..Len(meetings) :
                StartsAtOrAfter(meetings[a], CutoffLast)
          /\ \A n \in 1..Len(FirstSource) :
                ( /\ StartsAtOrAfter(FirstSource[n], CutoffLast)
                  /\ OccurrenceId(FirstSource[n]) # <<>> )
                => \E a \in 1..Len(meetings) :
                      OccurrenceId(meetings[a]) = OccurrenceId(FirstSource[n])

\* get_meetings has returned an occurrence that starts exactly at the
\* cutoff and has dropped one whose start time does not parse.
C15_Witness ==
    /\ pc = "listed"
    /\ \E a \in 1..Len(meetings) :
          Strptime(Prefix(meetings[a].start_time, 19)).dt = CutoffFirst
    /\ \E n \in 1..Len(Listed(env.list_response)) :
          Get(Listed(env.list_response)[n], "start_time", <<>>) = StartDateOnly
    /\ Len(meetings) < Len(Listed(env.list_response))

(***************************************************************************)
(* C17.  _deduplicate_participants, the in-place join-time sort of         *)
(* _combine_sessions included, leaves the caller's participant list as it  *)
(* was passed: same length, same elements in the same order, same field    *)
(* values in every session.                                                *)
(***************************************************************************)
C17_InputListUnchanged ==
    /\ Len(env.heap.lists[1]) = Len(env.given)
    /\ \A n \in 1..Len(env.given) :
          /\ env.heap.lists[1][n] = n
          /\ env.heap.objects[n] = env.given[n]
    /\ participants = env.given

\* The run is over: a group that holds every session of the caller's list
\* was sorted into another order, and a combined dict was created.
C17_Witness ==
    /\ pc = "deduplicated"
    /\ Len(env.given) > 1
    /\ Len(env.heap.lists) = 2
    /\ Len(env.heap.lists[2]) = Len(env.given)
    /\ env.heap.lists[2] # env.heap.lists[1]
    /\ Len(env.heap.objects) = Len(env.given) + 1

(***************************************************************************)
(* C18.  Deduplication is idempotent: every record of the output has the   *)
(* identity key of the group it was merged from, so deduplicating the      *)
(* output returns the same records in the same order.                      *)
(***************************************************************************)
C18_Idempotent ==
    pc = "deduplicated" =>
        /\ \A g \in 1..Len(deduplicated) :
              StatedKey(deduplicated[g]) = participant_groups[g].key
        /\ DeduplicateParticipants(deduplicated) = deduplicated

(***************************************************************************)
(* Vocabulary of the statements about parse_time_input.                    *)
(***************************************************************************)
\* The input as the function reads it: trimmed and lower-cased.
InputText == Lower(Strip(env.time_input))

\* The text before the last character.
InputPrefix == SubSeq(InputText, 1, Len(InputText) - 1)

\* The input is an integer followed by one of the unit characters.
UnitSuffixed ==
    /\ InputText # <<>>
    /\ InputText[Len(InputText)] \in {"h", "m", "d"}
    /\ PyInt(InputPrefix).ok

\* The window of n units, as days and seconds of the day.
Amount(n, unit) ==
    CASE unit = "d" -> [days |-> n, seconds |-> 0]
      [] unit = "h" -> [days |-> n \div 24, seconds |-> 3600 * (n % 24)]
      [] unit = "m" -> [days |-> n \div 1440, seconds |-> 60 * (n % 1440)]

(***************************************************************************)
(* C16.  parse_time_input returns exactly 1 day for the empty input and    *)
(* for every input that is not an integer followed by one of the unit      *)
(* characters h, m, d, an input with no unit character included; for a     *)
(* well-formed input it returns that number of hours, minutes or days.     *)
(* The input is taken trimmed and lower-cased, as the function reads it.   *)
(***************************************************************************)
C16_OneDayUnlessUnitSuffixed ==
    pc = "parsed" =>
        env.time_delta =
            IF UnitSuffixed
            THEN Amount(PyInt(InputPrefix).value, InputText[Len(InputText)])
            ELSE Amount(1, "d")

C13_NoMeetingsNoRows ==
    (pc = "returned" /\ meetings = <<>>) =>
        /\ attendance_data = <<>>
        /\ all_participants = <<>>
        /\ fetched = <<>>
        /\ env.statuses = <<>>

\* The meeting list was fetched, held no occurrence, and the report has
\* been returned.
C13_Witness ==
    /\ pc = "returned"
    /\ meetings = <<>>
    /\ ~env.list_failed
    /\ attendance_data = <<>>

(***************************************************************************)
(* C14.  A session whose display name is empty or absent is reported as    *)
(* "Unknown": no row and no entry of the name list carries an empty name.  *)
(***************************************************************************)
C14_NoEmptyName ==
    /\ \A n \in 1..Len(attendance_data) : attendance_data[n].name # <<>>
    /\ \A n \in 1..Len(all_participants) : all_participants[n] # <<>>

(***************************************************************************)
(* C19.  After each loop iteration of generate_report, and at its return,  *)
(* the row list and the name list have the same length and the i-th name   *)
(* is the participant name of the i-th row, for placeholder rows as for    *)
(* merged rows.                                                            *)
(***************************************************************************)
C19_NamesMatchRows ==
    /\ Len(attendance_data) = Len(all_participants)
    /\ \A i \in 1..Len(attendance_data) :
          attendance_data[i].name = all_participants[i]

\* A returned report with a placeholder row and, after it, a row merged
\* from two sessions.
C19_Witness ==
    /\ pc = "returned"
    /\ Len(fetched) = 2
    /\ fetched[1] = <<>>
    /\ Len(fetched[2]) = 2
    /\ Len(attendance_data) = 2
    /\ attendance_data[1].name = NoAttendees
    /\ all_participants[2] = attendance_data[2].name
    /\ all_participants[2] \notin {NoAttendees} \cup
          { Get(fetched[2][n], "name", <<>>) : n \in 1..2 }

(***************************************************************************)
(* C20.  In run_automated_report the cleanup step attempts the deletion    *)
(* only with a file name that was assigned, on every path through the      *)
(* try/except/finally statement, and a run whose error handler ran ends    *)
(* with the exit status the handler chose.                                 *)
(***************************************************************************)
C20_CleanupOnlyWithSavedFile ==
    cron.cleanup =>
        /\ cron.filename # Unbound
        /\ cron.handled => cron.outcome = SystemExit1

(***************************************************************************)
(* Vocabulary of the statements about run_automated_report.                *)
(***************************************************************************)
\* The configuration the run needs: the meeting id is not the placeholder,
\* the three Zoom credentials are set and, with SEND_EMAIL on, the sender's
\* address and password are set and there is a recipient.
Configured ==
    /\ cron.MEETING_ID # MeetingIdPlaceholder
    /\ \A f \in {"zoom_account_id", "zoom_client_id", "zoom_client_secret"} :
          Len(cron.config[f]) > 0
    /\ cron.SEND_EMAIL =>
          /\ Len(cron.config.sender_email) > 0
          /\ Len(cron.config.sender_password) > 0
          /\ Len(cron.config.recipients) > 0

\* The outside actions of a run: provider requests, the report file, the
\* email.
OutsideActions == {"authenticate", "fetch", "save", "send"}

(***************************************************************************)
(* C21.  In run_automated_report no provider request, no report file and   *)
(* no email happens unless the configuration checks passed first; a failed *)
(* check ends the run with exit status 1 before any of these actions.      *)
(***************************************************************************)
C21_NothingBeforeValidation ==
    /\ ( \/ \E n \in 1..Len(cron.log) : cron.log[n] \in OutsideActions
         \/ cron.files # {}
         \/ cron.filename # Unbound )
       => Configured
    /\ pc = "validate" => cron.log = <<>> /\ cron.files = {}
    /\ (~Configured /\ pc # "validate") =>
          /\ pc = "ended"
          /\ cron.outcome = SystemExit1
          /\ cron.log = <<>>
          /\ cron.files = {}
          /\ ~cron.cleanup

\* A run with SEND_EMAIL on whose checks passed has made its requests,
\* saved the report and sent the email.
C21_Witness ==
    /\ pc = "ended"
    /\ cron.SEND_EMAIL
    /\ Configured
    /\ cron.log = <<"authenticate", "fetch", "save", "send", "remove">>
    /\ cron.outcome = Returned

====
